---------------------------- MODULE Spec2Model ----------------------------
(***************************************************************************)
(* A model of the "meaning of life" command-line script (src/src/main.py)  *)
(* and of its console/file logger (src/src/utils/logger.py).               *)
(*                                                                         *)
(* Text is a sequence of one-character strings.  ANSI escape codes, emojis *)
(* and timestamps are single tokens of such a sequence.                    *)
(***************************************************************************)
EXTENDS Integers, Sequences, FiniteSets, TLC

VARIABLES
    question,   \* main.py: args.question, the string handed to the evaluator
    pc,         \* position of the running script / of the caller
    result,     \* outcome of the last call: [returned: set, raised: set]
    exitStatus, \* process exit status of the CLI run (-1 while running)
    handlers,   \* handlers attached to logging.getLogger("python-project")
    records,    \* the LogRecords created by the logging calls, in order
    errorLog,   \* content of logs/error.log (what the file handlers wrote)
    stderr,     \* what the console StreamHandlers wrote
    stdout,     \* the writes of Logger.stdout (sys.stdout.write + flush)
    calls,      \* history of the logger's public calls
    rng,        \* state of the `random` module: [tape, pos]
    clock,      \* the wall clock read by _get_timestamp
    msg,        \* the positional arguments *msg of the call under study
    printed     \* pprint's outcome for each element of msg

vars == <<question, pc, result, exitStatus, handlers, records, errorLog,
          stderr, stdout, calls, rng, clock, msg, printed>>

(***************************************************************************)
(* Characters and strings                                                  *)
(***************************************************************************)

\* The characters the model orders, in code point order.
Alphabet ==
    <<" ", "\"", "(", ")", ",", "/", "0", "1", "2", "3", "4", "5", "6", "7",
      "8", "9", ":", "<", ">", "?", "E", "F", "I", "L", "O", "[", "]",
      "a", "b", "e", "f", "h", "i", "l", "m", "o", "t", "v", "x", "y", "z",
      "{", "}">>

CharCode(c) == CHOOSE i \in 1..Len(Alphabet) : Alphabet[i] = c

\* The character as it is: no case folding.
LowerChar_NoFold(c) == c

\* str.lower() on one character: the upper-case letters of the texts at hand
\* fold, every other character is kept.
LowerChar(c) ==
    CASE c = "E" -> "e"
      [] c = "F" -> "f"
      [] c = "I" -> "i"
      [] c = "L" -> "l"
      [] c = "O" -> "o"
      [] c = "R" -> "r"
      [] c = "T" -> "t"
      [] c = "W" -> "w"
      [] OTHER -> c

\* str.lower()
Lower(s) == [i \in 1..Len(s) |-> LowerChar(s[i])]

\* `sub in s` for strings
Contains(s, sub) ==
    \E i \in 0..(Len(s) - Len(sub)) :
        \A j \in 1..Len(sub) : s[i + j] = sub[j]

\* s[:n]
Take(s, n) == IF Len(s) <= n THEN s ELSE SubSeq(s, 1, n)

RECURSIVE Concat(_)
\* "".join(parts)
Concat(parts) ==
    IF parts = <<>> THEN <<>> ELSE Head(parts) \o Concat(Tail(parts))

\* All strings over a set of characters, of length at most n.
StringsUpTo(chars, n) == UNION {[1..k -> chars] : k \in 0..n}

(***************************************************************************)
(* main.py: the question evaluator                                         *)
(***************************************************************************)

Returned(v) == [returned |-> {v}, raised |-> {}]
Raised(type, message) ==
    [returned |-> {}, raised |-> {[type |-> type, message |-> message]}]
NoResult == [returned |-> {}, raised |-> {}]

life == <<"l", "i", "f", "e">>

\* The docstring's variant: the message is returned instead of raised.
get_meaning_of_life_returns_message(q) ==
    IF Contains(Lower(q), life)
    THEN Returned(42)
    ELSE Returned("Question not deep enough")

get_meaning_of_life(q) ==
    IF Contains(Lower(q), life)
    THEN Returned(42)
    ELSE Raised("ValueError", "Question not deep enough")


(***************************************************************************)
(* Python values handed to the logger                                      *)
(*                                                                         *)
(* A value is a record [kind, s, n, cls, items]:                           *)
(*   "str"   s is the text                                                 *)
(*   "int"   n is the number (non-negative)                                *)
(*   "obj"   an instance of class cls whose __str__ yields s               *)
(*   "list", "tuple"   items is the sequence of the elements               *)
(*   "dict"  items is the sequence of [k, v] pairs in insertion order      *)
(*   "ref"   the very object that is the n-th enclosing container (1 is    *)
(*           the innermost): how a self-referential structure is written   *)
(***************************************************************************)

StrV(s) == [kind |-> "str", s |-> s, n |-> 0, cls |-> <<>>, items |-> <<>>]
IntV(n) == [kind |-> "int", s |-> <<>>, n |-> n, cls |-> <<>>, items |-> <<>>]
ObjV(cls, s) == [kind |-> "obj", s |-> s, n |-> 0, cls |-> cls, items |-> <<>>]
ListV(items) ==
    [kind |-> "list", s |-> <<>>, n |-> 0, cls |-> <<>>, items |-> items]
TupleV(items) ==
    [kind |-> "tuple", s |-> <<>>, n |-> 0, cls |-> <<>>, items |-> items]
DictV(items) ==
    [kind |-> "dict", s |-> <<>>, n |-> 0, cls |-> <<>>, items |-> items]
RefV(up) == [kind |-> "ref", s |-> <<>>, n |-> up, cls |-> <<>>, items |-> <<>>]
Item(k, v) == [k |-> k, v |-> v]

RECURSIVE Digits(_)
\* str(n) for a non-negative int
Digits(n) ==
    IF n < 10 THEN <<Alphabet[CharCode("0") + n]>>
    ELSE Digits(n \div 10) \o <<Alphabet[CharCode("0") + (n % 10)]>>

RECURSIVE StrLess(_, _)
\* a < b for strings: lexicographic, by code point
StrLess(a, b) ==
    IF b = <<>> THEN FALSE
    ELSE IF a = <<>> THEN TRUE
    ELSE IF Head(a) # Head(b) THEN CharCode(Head(a)) < CharCode(Head(b))
    ELSE StrLess(Tail(a), Tail(b))

(***************************************************************************)
(* json.dumps(o, indent=4, sort_keys=True)                                 *)
(***************************************************************************)

Ok(text) == [err |-> "", text |-> text]
Err(type) == [err |-> type, text |-> <<>>]

\* the encoder's string literal
Quote(s) ==
    <<"\"">>
    \o Concat([i \in 1..Len(s) |->
                  IF s[i] = "\"" THEN <<"\\", "\"">> ELSE <<s[i]>>])
    \o <<"\"">>

\* newline and indentation of nesting level lvl (indent=4)
NewlineIndent(lvl) == <<"\n">> \o [i \in 1..(4 * lvl) |-> " "]

\* the < of sorted(dct.items()) on two keys of the same type
KeyLess(a, b) ==
    IF a.kind = "int" THEN a.n < b.n ELSE StrLess(a.s, b.s)

RECURSIVE InsertSorted(_, _)
InsertSorted(x, sorted) ==
    IF sorted = <<>> THEN <<x>>
    ELSE IF KeyLess(x.k, Head(sorted).k) THEN <<x>> \o sorted
    ELSE <<Head(sorted)>> \o InsertSorted(x, Tail(sorted))

RECURSIVE SortItems(_)
\* sort_keys=True: sorted(dct.items()), on keys that compare
SortItems(items) ==
    IF items = <<>> THEN <<>>
    ELSE InsertSorted(items[Len(items)], SortItems(SubSeq(items, 1, Len(items) - 1)))

\* sorted() raises TypeError when two keys of different types are compared
KeysCompare(items) ==
    \A i, j \in 1..Len(items) :
        /\ items[i].k.kind = items[j].k.kind
        /\ items[i].k.kind \in {"str", "int", "tuple"}

\* a dict key as the encoder writes it; only str and int keys are written
KeyText(k) == IF k.kind = "int" THEN Quote(Digits(k.n)) ELSE Quote(k.s)

RECURSIVE Encode(_, _)
RECURSIVE EncodeList(_, _, _)
RECURSIVE EncodeDict(_, _, _)

\* the elements of a list from the i-th on, each on a line of its own
EncodeList(items, i, lvl) ==
    IF i > Len(items) THEN Ok(<<>>)
    ELSE LET first == Encode(items[i], lvl)
         IN  IF first.err # "" THEN first
             ELSE LET rest == EncodeList(items, i + 1, lvl)
                  IN  IF rest.err # "" THEN rest
                      ELSE Ok((IF i > 1 THEN <<",">> ELSE <<>>)
                              \o NewlineIndent(lvl) \o first.text \o rest.text)

\* the sorted pairs of a dict from the i-th on
EncodeDict(items, i, lvl) ==
    IF i > Len(items) THEN Ok(<<>>)
    ELSE IF items[i].k.kind \notin {"str", "int"} THEN Err("TypeError")
    ELSE LET first == Encode(items[i].v, lvl)
         IN  IF first.err # "" THEN first
             ELSE LET rest == EncodeDict(items, i + 1, lvl)
                  IN  IF rest.err # "" THEN rest
                      ELSE Ok((IF i > 1 THEN <<",">> ELSE <<>>)
                              \o NewlineIndent(lvl) \o KeyText(items[i].k)
                              \o <<":", " ">> \o first.text \o rest.text)

\* One value at nesting level lvl.  An object that is not serializable ends
\* the encoding with TypeError, an object met again inside itself with
\* ValueError ("Circular reference detected"); the first one met wins.
Encode(o, lvl) ==
    CASE o.kind = "str" -> Ok(Quote(o.s))
      [] o.kind = "int" -> Ok(Digits(o.n))
      [] o.kind = "obj" -> Err("TypeError")
      [] o.kind = "ref" -> Err("ValueError")
      [] o.kind \in {"list", "tuple"} ->
            IF o.items = <<>> THEN Ok(<<"[", "]">>)
            ELSE LET body == EncodeList(o.items, 1, lvl + 1)
                 IN  IF body.err # "" THEN body
                     ELSE Ok(<<"[">> \o body.text \o NewlineIndent(lvl) \o <<"]">>)
      [] o.kind = "dict" ->
            IF o.items = <<>> THEN Ok(<<"{", "}">>)
            ELSE IF ~KeysCompare(o.items) THEN Err("TypeError")
            ELSE LET body == EncodeDict(SortItems(o.items), 1, lvl + 1)
                 IN  IF body.err # "" THEN body
                     ELSE Ok(<<"{">> \o body.text \o NewlineIndent(lvl) \o <<"}">>)

json_dumps(o) == Encode(o, 0)

(***************************************************************************)
(* str(o) and repr(o)                                                      *)
(***************************************************************************)

RECURSIVE Repr(_, _)
RECURSIVE ReprItems(_, _, _)
RECURSIVE ReprPairs(_, _, _)

ReprItems(items, i, path) ==
    IF i > Len(items) THEN <<>>
    ELSE (IF i > 1 THEN <<",", " ">> ELSE <<>>)
         \o Repr(items[i], path) \o ReprItems(items, i + 1, path)

ReprPairs(items, i, path) ==
    IF i > Len(items) THEN <<>>
    ELSE (IF i > 1 THEN <<",", " ">> ELSE <<>>)
         \o Repr(items[i].k, path) \o <<":", " ">> \o Repr(items[i].v, path)
         \o ReprPairs(items, i + 1, path)

\* repr(o); path holds the kinds of the enclosing containers, innermost
\* last.  A container met again inside itself is written [...] or {...}.
Repr(o, path) ==
    CASE o.kind = "str" -> <<"'">> \o o.s \o <<"'">>
      [] o.kind = "int" -> Digits(o.n)
      [] o.kind = "obj" -> <<"<">> \o o.cls \o <<" object at 0x..", ">">>
      [] o.kind = "ref" ->
            IF path[Len(path) + 1 - o.n] = "dict"
            THEN <<"{", "...", "}">> ELSE <<"[", "...", "]">>
      [] o.kind = "list" ->
            <<"[">> \o ReprItems(o.items, 1, Append(path, "list")) \o <<"]">>
      [] o.kind = "tuple" ->
            <<"(">> \o ReprItems(o.items, 1, Append(path, "tuple"))
            \o (IF Len(o.items) = 1 THEN <<",">> ELSE <<>>) \o <<")">>
      [] o.kind = "dict" ->
            <<"{">> \o ReprPairs(o.items, 1, Append(path, "dict")) \o <<"}">>

\* str(o)
Str(o) ==
    CASE o.kind = "str" -> o.s
      [] o.kind = "obj" -> o.s
      [] OTHER -> Repr(o, <<>>)

(***************************************************************************)
(* logger.py: sanitize                                                     *)
(***************************************************************************)

Sane(v) == [err |-> "", val |-> v]
Insane(type) == [err |-> type, val |-> IntV(0)]

\* d[k] = v on the pairs of a dict whose keys are all str
DictPut(items, k, v) ==
    IF \E i \in 1..Len(items) : items[i].k.s = k.s
    THEN [i \in 1..Len(items) |->
             IF items[i].k.s = k.s THEN Item(items[i].k, v) ELSE items[i]]
    ELSE Append(items, Item(k, v))

\* the list, or the dict, of the sanitized elements r, unless r is an exception
AsList(r) == IF r.err # "" THEN r ELSE Sane(ListV(r.val))
AsDict(r) == IF r.err # "" THEN r ELSE Sane(DictV(r.val))

RECURSIVE sanitize(_)
RECURSIVE SanitizeList(_, _)
RECURSIVE SanitizeDict(_, _, _)

\* [sanitize(x) for x in v], from the i-th element on
SanitizeList(items, i) ==
    IF i > Len(items) THEN Sane(<<>>)
    ELSE LET first == sanitize(items[i])
         IN  IF first.err # "" THEN first
             ELSE LET rest == SanitizeList(items, i + 1)
                  IN  IF rest.err # "" THEN rest
                      ELSE Sane(<<first.val>> \o rest.val)

\* {str(k): sanitize(val) for k, val in v.items()}, from the i-th pair on,
\* onto the pairs built so far
SanitizeDict(items, i, built) ==
    IF i > Len(items) THEN Sane(built)
    ELSE LET val == sanitize(items[i].v)
         IN  IF val.err # "" THEN val
             ELSE SanitizeDict(items, i + 1,
                               DictPut(built, StrV(Str(items[i].k)), val.val))

\* A structure that contains itself is walked without end: the recursion
\* limit ends the walk with RecursionError.
sanitize(v) ==
    CASE v.kind \in {"str", "int"} -> Sane(v)
      [] v.kind \in {"list", "tuple"} -> AsList(SanitizeList(v.items, 1))
      [] v.kind = "dict" -> AsDict(SanitizeDict(v.items, 1, <<>>))
      [] v.kind = "ref" -> Insane("RecursionError")
      [] v.kind = "obj" -> Sane(StrV(v.cls \o <<"(">> \o v.s \o <<")">>))

(***************************************************************************)
(* json.loads(s), for the JSON texts the payloads hold: objects, arrays,   *)
(* strings without escapes and non-negative integers, separated by spaces. *)
(* Any other text is rejected with ValueError (JSONDecodeError).           *)
(***************************************************************************)

DigitChars == {"0", "1", "2", "3", "4", "5", "6", "7", "8", "9"}
DigitValue(c) == CharCode(c) - CharCode("0")

Parsed(v, next) == [ok |-> TRUE, val |-> v, next |-> next]
NotParsed == [ok |-> FALSE, val |-> IntV(0), next |-> 0]

RECURSIVE SkipSpaces(_, _)
SkipSpaces(s, i) ==
    IF i <= Len(s) /\ s[i] = " " THEN SkipSpaces(s, i + 1) ELSE i

RECURSIVE ScanDigits(_, _, _)
\* the digits from position i on, onto the number read so far
ScanDigits(s, i, acc) ==
    IF i <= Len(s) /\ s[i] \in DigitChars
    THEN ScanDigits(s, i + 1, 10 * acc + DigitValue(s[i]))
    ELSE Parsed(IntV(acc), i)

\* the position of the first c at or after i, 0 when there is none
IndexFrom(s, c, i) ==
    IF \E j \in i..Len(s) : s[j] = c
    THEN CHOOSE j \in i..Len(s) : s[j] = c /\ \A k \in i..(j - 1) : s[k] # c
    ELSE 0

\* a string literal opening at position i
ScanString(s, i) ==
    LET close == IndexFrom(s, "\"", i + 1)
    IN  IF close = 0 THEN NotParsed
        ELSE Parsed(StrV(SubSeq(s, i + 1, close - 1)), close + 1)

RECURSIVE ParseValue(_, _)
RECURSIVE ParseElements(_, _, _)
RECURSIVE ParseMembers(_, _, _)

\* the elements of an array, from position i (at a value) on
ParseElements(s, i, acc) ==
    LET v == ParseValue(s, i)
        j == SkipSpaces(s, v.next)
    IN  IF ~v.ok \/ j > Len(s) THEN NotParsed
        ELSE IF s[j] = "]" THEN Parsed(ListV(Append(acc, v.val)), j + 1)
        ELSE IF s[j] = "," THEN ParseElements(s, SkipSpaces(s, j + 1),
                                              Append(acc, v.val))
        ELSE NotParsed

\* the members of an object, from position i (at a key) on; a key given
\* twice keeps its last value
ParseMembers(s, i, acc) ==
    IF i > Len(s) \/ s[i] # "\"" THEN NotParsed
    ELSE LET k == ScanString(s, i)
             colon == SkipSpaces(s, k.next)
         IN  IF ~k.ok \/ colon > Len(s) \/ s[colon] # ":" THEN NotParsed
             ELSE LET v == ParseValue(s, SkipSpaces(s, colon + 1))
                      j == SkipSpaces(s, v.next)
                  IN  IF ~v.ok \/ j > Len(s) THEN NotParsed
                      ELSE IF s[j] = "}"
                      THEN Parsed(DictV(DictPut(acc, k.val, v.val)), j + 1)
                      ELSE IF s[j] = ","
                      THEN ParseMembers(s, SkipSpaces(s, j + 1),
                                        DictPut(acc, k.val, v.val))
                      ELSE NotParsed

ParseValue(s, i) ==
    IF i > Len(s) THEN NotParsed
    ELSE CASE s[i] = "0" -> Parsed(IntV(0), i + 1)
           [] s[i] \in DigitChars \ {"0"} -> ScanDigits(s, i, 0)
           [] s[i] = "\"" -> ScanString(s, i)
           [] s[i] = "[" ->
                 LET j == SkipSpaces(s, i + 1)
                 IN  IF j <= Len(s) /\ s[j] = "]" THEN Parsed(ListV(<<>>), j + 1)
                     ELSE ParseElements(s, j, <<>>)
           [] s[i] = "{" ->
                 LET j == SkipSpaces(s, i + 1)
                 IN  IF j <= Len(s) /\ s[j] = "}" THEN Parsed(DictV(<<>>), j + 1)
                     ELSE ParseMembers(s, j, <<>>)
           [] OTHER -> NotParsed

\* One value, then nothing but spaces.
json_loads(s) ==
    LET v == ParseValue(s, SkipSpaces(s, 1))
    IN  IF v.ok /\ SkipSpaces(s, v.next) = Len(s) + 1 THEN v ELSE NotParsed

(***************************************************************************)
(* logger.py: strip_tags and pprint                                        *)
(***************************************************************************)

Letters ==
    {"E", "F", "I", "L", "O", "a", "b", "e", "f", "h", "i", "l", "m", "o",
     "t", "v", "x", "y", "z"}

RECURSIVE StripFrom(_, _)
\* MLStripper.feed from position i on: the text outside the tags.  A tag
\* opens with "<" and a letter, "/" or "?" and runs to the next ">"; one that
\* is never closed stays in the parser's buffer and yields no text.
StripFrom(s, i) ==
    IF i > Len(s) THEN <<>>
    ELSE IF s[i] = "<" /\ i < Len(s) /\ s[i + 1] \in Letters \cup {"/", "?"}
    THEN LET close == IndexFrom(s, ">", i + 1)
         IN  IF close = 0 THEN <<>> ELSE StripFrom(s, close + 1)
    ELSE IF s[i] = "<" /\ i = Len(s) THEN <<>>
    ELSE <<s[i]>> \o StripFrom(s, i + 1)

strip_tags(html) == StripFrom(html, 1)

\* the longest text pprint keeps of a string that looks like markup
MaxHtmlLen == 500

Printed(text) == [raised |-> "", text |-> text]
PrintFailed(type) == [raised |-> type, text |-> <<>>]

\* line 71 and 72-73, again being the outcome of json.dumps(sanitized, ...)
PrintAgain(o, again) ==
    IF again.err # "" THEN Printed(Str(o)) ELSE Printed(again.text)

\* lines 66-73, sanitized being the outcome of lines 67-70: str(o) on any
\* exception
PrintSanitized(o, sanitized) ==
    IF sanitized.err # "" THEN Printed(Str(o))
    ELSE PrintAgain(o, json_dumps(sanitized.val))

\* lines 67-70: the top level of the value, sanitized
SanitizeTop(o) ==
    IF o.kind = "dict"
    THEN AsDict(SanitizeDict(o.items, 1, <<>>))
    ELSE AsList(SanitizeList(o.items, 1))

\* lines 63-73, dumped being the outcome of json.dumps(o, ...): only its
\* TypeError is caught
PrintDumped(o, dumped) ==
    CASE dumped.err = "" -> Printed(dumped.text)
      [] dumped.err = "TypeError" -> PrintSanitized(o, SanitizeTop(o))
      [] OTHER -> PrintFailed(dumped.err)

\* lines 58-61, loaded being the outcome of json.loads(o)
PrintLoaded(o, loaded) ==
    IF loaded.ok THEN Printed(json_dumps(loaded.val).text) ELSE Printed(o.s)

pprint(o) ==
    IF o.kind = "str"
    THEN IF Contains(o.s, <<"h", "t", "m", "l">>)
         THEN Printed(Take(strip_tags(o.s), MaxHtmlLen))
         ELSE PrintLoaded(o, json_loads(o.s))
    ELSE IF o.kind \in {"dict", "list"}
    THEN PrintDumped(o, json_dumps(o))
    ELSE Printed(Str(o))

(***************************************************************************)
(* logger.py: class Logger                                                 *)
(***************************************************************************)

\* ANSI color codes
COLORS ==
    [error |-> "ESC[91m", warning |-> "ESC[93m", info |-> "ESC[94m",
     success |-> "ESC[92m", magenta |-> "ESC[95m", cyan |-> "ESC[96m",
     white |-> "ESC[97m", black |-> "ESC[90m", bold |-> "ESC[1m",
     underline |-> "ESC[4m", end |-> "ESC[0m"]

EMOJIS ==
    [error |-> "emoji:error", warning |-> "emoji:warning",
     info |-> "emoji:info", success |-> "emoji:success",
     magenta |-> "emoji:magenta", cyan |-> "emoji:cyan",
     white |-> "emoji:white", black |-> "emoji:black"]

\* COLORS.get(color, ""), as text
get_color(color) == IF color \in DOMAIN COLORS THEN <<COLORS[color]>> ELSE <<>>

\* EMOJIS.get(color, ""), as text
get_emoji(color) == IF color \in DOMAIN EMOJIS THEN <<EMOJIS[color]>> ELSE <<>>

\* time.strftime("%Y-%m-%d %H:%M:%S") at clock reading t
get_timestamp(t) == <<"time:">> \o Digits(t)

\* pprint of every element of *msg
PrintAll(m) == [i \in 1..Len(m) |-> pprint(m[i])]

\* the first exception among the outcomes ps of pprint, "" when none
FirstRaised(ps) ==
    IF \E i \in 1..Len(ps) : ps[i].raised # ""
    THEN ps[CHOOSE i \in 1..Len(ps) :
                /\ ps[i].raised # ""
                /\ \A j \in 1..(i - 1) : ps[j].raised = ""].raised
    ELSE ""

RECURSIVE JoinLines(_, _, _)
\* "\n".join(f"{color}{bold}{pprint(m)}" for m in msg), from the i-th on;
\* ps holds pprint's outcomes
JoinLines(ps, i, color) ==
    IF i > Len(ps) THEN <<>>
    ELSE (IF i > 1 THEN <<"\n">> ELSE <<>>)
         \o color \o <<COLORS["bold"]>> \o ps[i].text
         \o JoinLines(ps, i + 1, color)

\* lines 153-160, ps being pprint's outcomes on *msg
Compose(ps, msg_type, t) ==
    IF FirstRaised(ps) # "" THEN PrintFailed(FirstRaised(ps))
    ELSE Printed(<<"\n", "\n", "\n">> \o get_emoji(msg_type) \o <<" ", " ">>
                 \o get_timestamp(t) \o <<"\n">> \o get_color(msg_type)
                 \o JoinLines(ps, 1, get_color(msg_type))
                 \o <<COLORS["end"]>> \o <<"\n", "\n", "\n">>)

format_message(m, msg_type, t) == Compose(PrintAll(m), msg_type, t)

\* Exceptions are records [type, message, trace]; trace names the stack the
\* exception was raised on.  A set of at most one exception stands for an
\* optional one.

\* traceback.format_exc(): the exception being handled, whichever it is
format_exc(handled) ==
    IF handled = {} THEN <<"NoneType: None", "\n">>
    ELSE LET e == CHOOSE x \in handled : TRUE
         IN  <<"Traceback (most recent call last):", "\n", e.trace, "\n",
               e.type, ":", " ", e.message, "\n">>

format_exception(exception, handled) ==
    <<"\n", "[", exception.type, "]", " ", exception.message>>
    \o <<"\n">> \o format_exc(handled)

\* the levels of the logging module
ERROR == 40
WARNING == 30
INFO == 20

\* self.logger.setLevel(logging.INFO)
LoggerLevel == INFO

\* fh.setLevel(logging.ERROR)
FileHandlerLevel == ERROR

\* ch.setLevel(logging.INFO)
StreamHandlerLevel == INFO

\* open(path, mode) on a file of the given content
OpenFile(content, mode) == IF mode = "w" THEN <<>> ELSE content

\* logging.FileHandler(path, mode="w")
FileHandler_open_truncating(content) == OpenFile(content, "w")

\* logging.FileHandler(path): the file is opened to append
FileHandler_open(content) == OpenFile(content, "a")

\* the handlers Logger.__init__ adds
NewHandlers ==
    <<[target |-> "file", level |-> FileHandlerLevel],
      [target |-> "stream", level |-> StreamHandlerLevel]>>

\* what the handlers of one target write of a record: one copy per handler
\* whose level the record reaches
Emitted(hs, target, rec) ==
    LET takes == SelectSeq(hs, LAMBDA h : h.target = target
                                          /\ rec.levelno >= h.level)
    IN  [i \in 1..Len(takes) |-> rec]

(***************************************************************************)
(* The `random` module: a generator whose draws repeat a tape              *)
(***************************************************************************)

\* the draws are 0 .. RngRange-1; draw d stands for the float d / RngRange
RngRange == 2

Seeds == {[tape |-> tp, pos |-> 1] : tp \in [1..2 -> 0..(RngRange - 1)]}

Draw(r) == r.tape[r.pos]
Advance(r) == [r EXCEPT !.pos = IF r.pos = Len(r.tape) THEN 1 ELSE r.pos + 1]

\* random.choice(seq) on the generator's next draw
Choice(seq, r) == seq[(Draw(r) % Len(seq)) + 1]

(***************************************************************************)
(* Logger.glitch                                                           *)
(***************************************************************************)

glitched_chars ==
    <<"U+2588", "U+2593", "U+2592", "U+2591", "U+2584", "U+2580", "U+2590",
      "U+258C", "U+2584", "|", "/", "\\", "#", "@", "&", "?", "!">>

colors == <<"error", "success", "warning", "info", "magenta", "cyan">>

\* An intensity is a fraction [num, den]; 0.4 is the default.
DefaultIntensity == [num |-> 2, den |-> 5]
Intensities == {[num |-> 0, den |-> 1], DefaultIntensity, [num |-> 1, den |-> 1]}

\* the text of one Logger.stdout call of glitch
Write(color, ch) == get_color(color) \o <<ch>> \o <<COLORS["end"]>>

\* random.random() < intensity, on draw d
BelowIntensity(d, intensity) == d * intensity.den < intensity.num * RngRange

\* the state of a glitch call under way: the writes made, the generator, and
\* the exception that ended the call ("" when none)
GlitchState(out, r, raised) == [out |-> out, rng |-> r, raised |-> raised]

\* F(e), with e evaluated once, before F
Bind(F(_), e) == CHOOSE y \in {F(x) : x \in {e}} : TRUE

\* lines 243-250, one pass of the inner loop on character ch: with a draw
\* below the intensity a noise glyph is written first
GlitchChar(st, ch, intensity) ==
    IF BelowIntensity(Draw(st.rng), intensity)
    THEN GlitchState(
             st.out \o <<Write("white", Choice(glitched_chars, Advance(st.rng))),
                         Write(Choice(colors, Advance(Advance(st.rng))), ch)>>,
             Advance(Advance(Advance(st.rng))), st.raised)
    ELSE GlitchState(
             st.out \o <<Write(Choice(colors, Advance(st.rng)), ch)>>,
             Advance(Advance(st.rng)), st.raised)

RECURSIVE GlitchChars(_, _, _, _, _)
\* the inner loop on the characters lo .. hi of text, in order: the first
\* half of them, then the second half from the state the first half leaves
GlitchChars(text, lo, hi, intensity, st) ==
    IF lo > hi THEN st
    ELSE IF lo = hi THEN GlitchChar(st, text[lo], intensity)
    ELSE Bind(LAMBDA half :
                  GlitchChars(text, ((lo + hi) \div 2) + 1, hi, intensity, half),
              GlitchChars(text, lo, (lo + hi) \div 2, intensity, st))

RECURSIVE GlitchValues(_, _, _, _)

\* lines 241-250, one pass of the outer loop, p being pprint's outcome on the
\* value: an exception of pprint ends the call
GlitchValue(p, intensity, st) ==
    IF p.raised # "" THEN [st EXCEPT !.raised = p.raised]
    ELSE GlitchChars(p.text, 1, Len(p.text), intensity, st)

\* the outer loop from the i-th value on
GlitchValues(m, i, intensity, st) ==
    IF i > Len(m) \/ st.raised # "" THEN st
    ELSE Bind(LAMBDA next : GlitchValues(m, i + 1, intensity, next),
              Bind(LAMBDA p : GlitchValue(p, intensity, st), pprint(m[i])))

\* lines 240-250: the loops of a glitch call, from generator state r
GlitchLoops(m, intensity, r) ==
    GlitchValues(m, 1, intensity, GlitchState(<<>>, r, ""))

(***************************************************************************)
(* The inputs of the model                                                 *)
(***************************************************************************)

\* a list that holds itself: a = []; a.append(a)
SelfList == ListV(<<RefV(1)>>)

\* an instance of a class of the caller's
Thing == ObjV(<<"O">>, <<"o">>)

\* the exceptions a caller may be or hand to error()
Boom == [type |-> "ValueError", message |-> "boom", trace |-> "stack:boom"]
Missing == [type |-> "KeyError", message |-> "'k'", trace |-> "stack:missing"]

\* the exception handed to error(), if any
Causes == {{}, {Boom}, {Missing}}

\* the exception the caller of error() is handling, if any
Contexts == {{}, {Missing}}

\* what logs/error.log may hold from earlier runs
OldRecord == [id |-> 0, levelno |-> ERROR, msg |-> <<"o", "l", "d">>]
OldLogs == {<<>>, <<OldRecord>>}

\* the *msg tuples of the logging calls
LogPayloads ==
    << <<StrV(<<"a", "b">>)>>,
       <<SelfList>> >>

\* the *msg tuples of the glitch calls
GlitchPayloads ==
    << <<StrV(<<"a", "b">>)>>,
       <<StrV(<<"[", "1", "]">>), IntV(7)>>,
       <<StrV(<<"a">>), SelfList, StrV(<<"b">>)>> >>

(***************************************************************************)
(* Bounds                                                                  *)
(***************************************************************************)

MaxQuestionLen == 5     \* longest question handed to the evaluator alone
MaxCalls == 2           \* logger calls in one behaviour
MaxLoggers == 2         \* Logger objects constructed in one process
MaxItems == 2           \* pairs of a generated mapping

(***************************************************************************)
(* The logger's operations                                                 *)
(***************************************************************************)

NoIntensity == [num |-> 0, den |-> 1]

\* the entry `calls` keeps of one public call
CallEntry(method, m, raised, record, cause, context, intensity) ==
    [method |-> method, msg |-> m, raised |-> raised, record |-> record,
     cause |-> cause, context |-> context, from |-> Len(stdout),
     intensity |-> intensity]

\* Logger.__init__: the directory, the level and the two handlers.  The
\* logging module keeps one logger per name, so a second Logger object adds
\* its handlers to those of the first.
Logger_init ==
    /\ handlers' = handlers \o NewHandlers
    /\ errorLog' = FileHandler_open(errorLog)

\* self.logger.error / warning / info (text): one LogRecord, handed to every
\* handler whose level it reaches
LoggerLog(level, text) ==
    LET rec == [id |-> Len(records) + 1, levelno |-> level, msg |-> text]
    IN  IF level >= LoggerLevel
        THEN /\ records' = Append(records, rec)
             /\ errorLog' = errorLog \o Emitted(handlers, "file", rec)
             /\ stderr' = stderr \o Emitted(handlers, "stream", rec)
        ELSE UNCHANGED <<records, errorLog, stderr>>

\* lines 178-180: the message, then the exception if one is given; context
\* is the exception the caller is handling, if any
ErrorText(text, cause, context) ==
    IF cause = {} THEN text
    ELSE text \o format_exception(CHOOSE e \in cause : TRUE, context)

\* A logging call whose message format_message has turned into fm: an
\* exception of the formatting leaves the call before anything is logged.
LogFormatted(method, level, m, cause, context, fm) ==
    IF fm.raised # ""
    THEN /\ calls' = Append(calls, CallEntry(method, m, fm.raised, 0, cause,
                                             context, NoIntensity))
         /\ UNCHANGED <<records, errorLog, stderr>>
    ELSE /\ calls' = Append(calls, CallEntry(method, m, "", Len(records) + 1,
                                             cause, context, NoIntensity))
         /\ LoggerLog(level, ErrorText(fm.text, cause, context))

\* error, warning, info, magic, water, white, black, success: the message is
\* formatted, then logged.
LogCall(method, level, msg_type, m, cause, context) ==
    /\ msg' = m
    /\ \E fm \in {format_message(m, msg_type, clock)} :
           LogFormatted(method, level, m, cause, context, fm)
    /\ UNCHANGED <<stdout, rng, printed>>

\* Logger.stdout for each text of ws, but through the logger's error level.
Logger_stdout_logged(ws) ==
    /\ LoggerLog(ERROR, Concat(ws))
    /\ UNCHANGED stdout

\* Logger.stdout for each text of ws in turn: written and flushed
Logger_stdout(ws) ==
    /\ stdout' = stdout \o ws
    /\ UNCHANGED <<records, errorLog, stderr>>

\* a glitch call whose loops had the outcome run
GlitchDone(m, intensity, run) ==
    /\ calls' = Append(calls, CallEntry("glitch", m, run.raised, 0, {}, {},
                                        intensity))
    /\ Logger_stdout(run.out)
    /\ rng' = run.rng

\* Logger.glitch(*m, intensity=intensity)
GlitchCall(m, intensity) ==
    /\ msg' = m
    /\ printed' = PrintAll(m)
    /\ \E run \in {GlitchLoops(m, intensity, rng)} : GlitchDone(m, intensity, run)

\* what a library call leaves alone
CallerFrame == <<question, pc, result, exitStatus, handlers, clock>>

MayCall == pc = "lib" /\ Len(calls) < MaxCalls

Error ==
    /\ MayCall
    /\ \E i \in 1..Len(LogPayloads), cause \in Causes, context \in Contexts :
           LogCall("error", ERROR, "error", LogPayloads[i], cause, context)
    /\ UNCHANGED CallerFrame

Warning ==
    /\ MayCall
    /\ \E i \in 1..Len(LogPayloads) :
           LogCall("warning", WARNING, "warning", LogPayloads[i], {}, {})
    /\ UNCHANGED CallerFrame

Info ==
    /\ MayCall
    /\ \E i \in 1..Len(LogPayloads) :
           LogCall("info", INFO, "info", LogPayloads[i], {}, {})
    /\ UNCHANGED CallerFrame

Magic ==
    /\ MayCall
    /\ \E i \in 1..Len(LogPayloads) :
           LogCall("magic", INFO, "magenta", LogPayloads[i], {}, {})
    /\ UNCHANGED CallerFrame

Water ==
    /\ MayCall
    /\ \E i \in 1..Len(LogPayloads) :
           LogCall("water", INFO, "cyan", LogPayloads[i], {}, {})
    /\ UNCHANGED CallerFrame

White ==
    /\ MayCall
    /\ \E i \in 1..Len(LogPayloads) :
           LogCall("white", INFO, "white", LogPayloads[i], {}, {})
    /\ UNCHANGED CallerFrame

Black ==
    /\ MayCall
    /\ \E i \in 1..Len(LogPayloads) :
           LogCall("black", INFO, "black", LogPayloads[i], {}, {})
    /\ UNCHANGED CallerFrame

Success ==
    /\ MayCall
    /\ \E i \in 1..Len(LogPayloads) :
           LogCall("success", INFO, "success", LogPayloads[i], {}, {})
    /\ UNCHANGED CallerFrame

Glitch ==
    /\ MayCall
    /\ \E i \in 1..Len(GlitchPayloads), intensity \in Intensities :
           GlitchCall(GlitchPayloads[i], intensity)
    /\ UNCHANGED CallerFrame

\* The caller constructs one more Logger.
NewLogger ==
    /\ pc = "lib"
    /\ Len(handlers) < 2 * MaxLoggers
    /\ Logger_init
    /\ UNCHANGED <<question, pc, result, exitStatus, records, stderr, stdout,
                   calls, rng, clock, msg, printed>>

\* The process ends and a new one imports the module: its logger starts
\* with the two handlers of the one Logger the module constructs.
NewRun ==
    /\ pc = "lib"
    /\ handlers' = NewHandlers
    /\ errorLog' = FileHandler_open(errorLog)
    /\ UNCHANGED <<question, pc, result, exitStatus, records, stderr, stdout,
                   calls, rng, clock, msg, printed>>

(***************************************************************************)
(* format_message on its own                                               *)
(***************************************************************************)

\* the keys and the values of the generated mappings
KeyTable == <<StrV(<<"b">>), StrV(<<"a">>), IntV(1), StrV(<<"1">>)>>

ValTable ==
    <<StrV(<<"x">>),
      Thing,
      DictV(<<Item(StrV(<<"z">>), IntV(1)), Item(StrV(<<"y">>), IntV(2))>>)>>

RECURSIVE Reordered(_)
\* the same value, every mapping in it built in the opposite order
Reordered(v) ==
    IF v.kind = "dict"
    THEN DictV([i \in 1..Len(v.items) |->
                   Item(v.items[Len(v.items) + 1 - i].k,
                        Reordered(v.items[Len(v.items) + 1 - i].v))])
    ELSE IF v.kind \in {"list", "tuple"}
    THEN [v EXCEPT !.items = [i \in 1..Len(v.items) |-> Reordered(v.items[i])]]
    ELSE v

\* the mapping with keys KeyTable[ks[i]] and values ValTable[vs[i]], inserted
\* in the order order[1], order[2], ...
MappingOf(ks, vs, order) ==
    DictV([i \in 1..Len(order) |->
              Item(KeyTable[ks[order[i]]], ValTable[vs[order[i]]])])

Injective(f) == \A i, j \in DOMAIN f : f[i] = f[j] => i = j

\* other *msg tuples handed to format_message
FormatPayloads ==
    << <<StrV(<<"a", "b">>)>>,
       <<SelfList>>,
       <<Thing, IntV(12)>>,
       <<ListV(<<Thing, IntV(3)>>), StrV(<<"{", "\"", "b", "\"", ":", "1", "}">>)>>,
       <<DictV(<<Item(StrV(<<"a">>), SelfList)>>)>>,
       <<StrV(<<"h", "t", "m", "l", " ", "<", "b", ">", "x">>), TupleV(<<IntV(1)>>)>>,
       <<DictV(<<Item(TupleV(<<IntV(1), IntV(2)>>), Thing)>>)>>,
       <<ListV(<<Thing, RefV(1)>>)>> >>

\* the categories format_message is asked for; "nope" is none of the logger's
MsgTypes == {"info", "error", "nope"}

InitFormat ==
    /\ pc = "format"
    /\ \/ \E n \in 0..MaxItems :
             \E ks \in [1..n -> 1..Len(KeyTable)], vs \in [1..n -> 1..Len(ValTable)],
                order \in [1..n -> 1..n] :
                 /\ Injective(ks)
                 /\ Injective(order)
                 /\ msg = <<MappingOf(ks, vs, [i \in 1..n |-> i]),
                            Reordered(MappingOf(ks, vs, order))>>
       \/ \E i \in 1..Len(FormatPayloads) : msg = FormatPayloads[i]
    /\ question = <<>>
    /\ result = NoResult
    /\ exitStatus = -1
    /\ handlers = NewHandlers
    /\ records = <<>>
    /\ errorLog = <<>>
    /\ stderr = <<>>
    /\ stdout = <<>>
    /\ calls = <<>>
    /\ rng = [tape |-> <<0>>, pos |-> 1]
    /\ clock = 0
    /\ printed = <<>>

\* logger.format_message(*msg, msg_type=msg_type)
FormatMessage ==
    /\ pc = "format"
    /\ \E msg_type \in MsgTypes :
           LET fm == format_message(msg, msg_type, clock)
           IN  /\ result' = IF fm.raised # ""
                            THEN Raised(fm.raised, "")
                            ELSE Returned(fm.text)
               /\ calls' = Append(calls, CallEntry("format_message", msg,
                                                   fm.raised, 0, {}, {}, NoIntensity))
    /\ printed' = PrintAll(msg)
    /\ pc' = "formatted"
    /\ UNCHANGED <<question, exitStatus, handlers, records, errorLog, stderr,
                   stdout, rng, clock, msg>>

SpecFormat == InitFormat /\ [][FormatMessage]_vars

(***************************************************************************)
(* The evaluator on its own, as the tests call it                          *)
(***************************************************************************)

QuestionChars == {"l", "L", "i", "I", "f", "F", "e", "E", " ", "?"}

InitEval ==
    /\ pc = "test"
    /\ question \in StringsUpTo(QuestionChars, MaxQuestionLen)
    /\ result = NoResult
    /\ exitStatus = -1
    /\ handlers = NewHandlers
    /\ records = <<>>
    /\ errorLog = <<>>
    /\ stderr = <<>>
    /\ stdout = <<>>
    /\ calls = <<>>
    /\ rng = [tape |-> <<0>>, pos |-> 1]
    /\ clock = 0
    /\ msg = <<>>
    /\ printed = <<>>

\* get_meaning_of_life(question)
Evaluate ==
    /\ pc = "test"
    /\ result' = get_meaning_of_life(question)
    /\ pc' = "tested"
    /\ UNCHANGED <<question, exitStatus, handlers, records, errorLog, stderr,
                   stdout, calls, rng, clock, msg, printed>>

SpecEval == InitEval /\ [][Evaluate]_vars

(***************************************************************************)
(* The logger as a library                                                 *)
(***************************************************************************)

\* The module has been imported: its one Logger exists.
InitLib ==
    /\ pc = "lib"
    /\ handlers = NewHandlers
    /\ errorLog \in OldLogs
    /\ question = <<>>
    /\ result = NoResult
    /\ exitStatus = -1
    /\ records = <<>>
    /\ stderr = <<>>
    /\ stdout = <<>>
    /\ calls = <<>>
    /\ clock = 0
    /\ msg = <<>>
    /\ printed = <<>>

InitLog == InitLib /\ rng = [tape |-> <<0>>, pos |-> 1]

NextLog ==
    \/ Error
    \/ Warning
    \/ Info
    \/ Magic
    \/ Water
    \/ White
    \/ Black
    \/ Success
    \/ NewLogger
    \/ NewRun

SpecLog == InitLog /\ [][NextLog]_vars

InitGlitch == InitLib /\ rng \in Seeds

NextGlitch == Glitch \/ Info

SpecGlitch == InitGlitch /\ [][NextGlitch]_vars

(***************************************************************************)
(* main.py run as a script                                                 *)
(***************************************************************************)

\* the default of --question: "What is the meaning of life?"
DefaultQuestion ==
    <<"W", "h", "a", "t", " ", "i", "s", " ", "t", "h", "e", " ", "m", "e",
      "a", "n", "i", "n", "g", " ", "o", "f", " ", "l", "i", "f", "e", "?">>

\* the questions given with -q
Questions ==
    {<<"L", "I", "F", "E">>,
     <<" ", "L", "i", "F", "e", " ", "?">>,
     <<"l", "o", "v", "e", "?">>,
     <<>>,
     <<" ", " ">>,
     <<"<", "h", "t", "m", "l", ">", "l", "i", "f", "e">>}

\* "Reflecting on question 🧠: "
Reflecting ==
    <<"R", "e", "f", "l", "e", "c", "t", "i", "n", "g", " ", "o", "n", " ",
      "q", "u", "e", "s", "t", "i", "o", "n", " ", "U+1F9E0", ":", " ">>

\* "The answer is "
TheAnswerIs ==
    <<"T", "h", "e", " ", "a", "n", "s", "w", "e", "r", " ", "i", "s", " ">>

Init ==
    /\ pc = "import"
    /\ handlers = <<>>
    /\ errorLog \in OldLogs
    /\ rng \in Seeds
    /\ clock \in 0..1
    /\ question = <<>>
    /\ result = NoResult
    /\ exitStatus = -1
    /\ records = <<>>
    /\ stderr = <<>>
    /\ stdout = <<>>
    /\ calls = <<>>
    /\ msg = <<>>
    /\ printed = <<>>

\* from src.utils import logger: the module constructs its Logger
Import ==
    /\ pc = "import"
    /\ Logger_init
    /\ pc' = "parse"
    /\ UNCHANGED <<question, result, exitStatus, records, stderr, stdout,
                   calls, rng, clock, msg, printed>>

\* parser.parse_args(): the question given, or the default
ParseArgs ==
    /\ pc = "parse"
    /\ \E q \in Questions \cup {DefaultQuestion} : question' = q
    /\ pc' = "glitch"
    /\ UNCHANGED <<result, exitStatus, handlers, records, errorLog, stderr,
                   stdout, calls, rng, clock, msg, printed>>

\* logger.glitch(f"Reflecting on question 🧠: {args.question}")
MainGlitch ==
    /\ pc = "glitch"
    /\ GlitchCall(<<StrV(Reflecting \o question)>>, DefaultIntensity)
    /\ pc' = IF calls'[Len(calls')].raised # "" THEN "uncaught" ELSE "evaluate"
    /\ UNCHANGED <<question, result, exitStatus, handlers, clock>>

\* result = get_meaning_of_life(args.question), its exception caught and
\* the run carried on
MainEvaluate_caught ==
    /\ pc = "evaluate"
    /\ result' = get_meaning_of_life(question)
    /\ pc' = "success"
    /\ UNCHANGED <<question, exitStatus, handlers, records, errorLog, stderr,
                   stdout, calls, rng, clock, msg, printed>>

\* result = get_meaning_of_life(args.question)
MainEvaluate ==
    /\ pc = "evaluate"
    /\ result' = get_meaning_of_life(question)
    /\ pc' = IF result'.raised # {} THEN "uncaught" ELSE "success"
    /\ UNCHANGED <<question, exitStatus, handlers, records, errorLog, stderr,
                   stdout, calls, rng, clock, msg, printed>>

\* logger.success(f"The answer is {result}")
MainSuccess ==
    /\ pc = "success"
    /\ \E r \in result.returned :
           LogCall("success", INFO, "success",
                   <<StrV(TheAnswerIs \o Digits(r))>>, {}, {})
    /\ pc' = IF calls'[Len(calls')].raised # "" THEN "uncaught" ELSE "end"
    /\ UNCHANGED <<question, result, exitStatus, handlers, clock>>

\* The interpreter leaves: status 1 on an uncaught exception, else 0.
Exit ==
    /\ pc \in {"uncaught", "end"}
    /\ exitStatus' = IF pc = "uncaught" THEN 1 ELSE 0
    /\ pc' = "exited"
    /\ UNCHANGED <<question, result, handlers, records, errorLog, stderr,
                   stdout, calls, rng, clock, msg, printed>>

Next ==
    \/ Import
    \/ ParseArgs
    \/ MainGlitch
    \/ MainEvaluate
    \/ MainSuccess
    \/ Exit

Spec == Init /\ [][Next]_vars

(***************************************************************************)
(* Properties                                                              *)
(***************************************************************************)

\* "life" in any letter case somewhere in q, stated on the characters
HasLifeAnyCase(q) ==
    \E i \in 1..(Len(q) - 3) :
        /\ q[i] \in {"l", "L"}
        /\ q[i + 1] \in {"i", "I"}
        /\ q[i + 2] \in {"f", "F"}
        /\ q[i + 3] \in {"e", "E"}

\* C1: for every question that holds "life" in any letter case, whatever
\* surrounds it, get_meaning_of_life returns 42 and raises nothing.
C1_LifeReturns42 ==
    (pc = "tested" /\ HasLifeAnyCase(question))
        => (result.returned = {42} /\ result.raised = {})

\* a mixed-case "LiFe" after a space has been answered
C1_Witness ==
    /\ pc = "tested"
    /\ question = <<" ", "L", "i", "F", "e">>
    /\ result.returned = {42}

IsNoise(write) == write[1] = COLORS["white"]
CharsOf(writes) ==
    LET kept == SelectSeq(writes, LAMBDA w : ~IsNoise(w))
    IN  [k \in 1..Len(kept) |-> kept[k][2]]

EvaluatorInvoked == pc = "evaluate" \/ result # NoResult

\* C3: in every run of the script exactly one glitch emission, of the line
\* built from the question, has completed before the evaluator is invoked;
\* when the evaluator succeeds one success line holding 42 is logged after
\* it; when it fails no success line is ever logged, the exception is left
\* uncaught and the process ends with a non-zero status.
C3_MainOrder ==
    /\ EvaluatorInvoked =>
           /\ Cardinality({i \in 1..Len(calls) : calls[i].method = "glitch"}) = 1
           /\ calls[1].method = "glitch"
           /\ calls[1].raised = ""
           /\ calls[1].msg = <<StrV(Reflecting \o question)>>
           /\ CharsOf(stdout) = pprint(StrV(Reflecting \o question)).text
    /\ (result.returned # {} /\ pc \in {"end", "exited"}) =>
           /\ Len(calls) = 2
           /\ calls[2].method = "success"
           /\ Len(stderr) = 1
           /\ Contains(stderr[1].msg, TheAnswerIs \o <<"4", "2">>)
           /\ Contains(stderr[1].msg, <<COLORS["success"]>>)
           /\ pc = "exited" => exitStatus = 0
    /\ result.raised # {} =>
           /\ \A i \in 1..Len(calls) : calls[i].method # "success"
           /\ stderr = <<>>
           /\ pc \in {"uncaught", "exited"}
           /\ pc = "exited" => exitStatus # 0

\* a run whose question was refused has ended, after its glitch line
C3_Witness ==
    /\ pc = "exited"
    /\ exitStatus = 1
    /\ result.raised # {}
    /\ Len(stdout) >= Len(Reflecting)
    /\ question = <<"l", "o", "v", "e", "?">>

LogMethods ==
    {"error", "warning", "info", "success", "magic", "water", "white", "black"}

\* the record of call c is in the sink
InSink(sink, c) ==
    c.record > 0 /\ \E j \in 1..Len(sink) : sink[j].id = c.record

\* C4: after any sequence of logger calls the file holds a record for every
\* error call and for no other call, and the console holds a record for
\* every error, warning, info, success, magic, water, white and black call.
C4_SinkRouting ==
    \A i \in 1..Len(calls) :
        calls[i].method \in LogMethods =>
            /\ InSink(errorLog, calls[i]) <=> calls[i].method = "error"
            /\ InSink(stderr, calls[i])

\* The routing of C4 for the calls whose message could be formatted.
SinkRoutingOfReturnedCalls ==
    \A i \in 1..Len(calls) :
        (calls[i].method \in LogMethods /\ calls[i].raised = "") =>
            /\ InSink(errorLog, calls[i]) <=> calls[i].method = "error"
            /\ InSink(stderr, calls[i])

GlitchStep ==
    /\ Len(calls') = Len(calls) + 1
    /\ calls'[Len(calls')].method = "glitch"

\* C5: a glitch call is no log record: whatever its values and intensity, it
\* writes to the console stream only, and leaves the file, the logger's
\* record stream and what the handlers wrote as they were.
C5_GlitchBypassesSinks ==
    [][GlitchStep =>
          /\ errorLog' = errorLog
          /\ records' = records
          /\ stderr' = stderr
          /\ handlers' = handlers
          /\ Len(stdout') >= Len(stdout)
          /\ SubSeq(stdout', 1, Len(stdout)) = stdout]_vars

\* a glitch call has written, with a record in the file and in the stream
C5_Witness ==
    /\ Len(calls) = 2
    /\ calls[2].method = "glitch"
    /\ Len(stdout) > 0
    /\ errorLog # <<>>
    /\ records # <<>>

\* C6: format_message never raises: for every tuple of values and every
\* category, known or not, it returns the composed string.
C6_FormatNeverRaises ==
    pc = "formatted" => (result.raised = {} /\ result.returned # {})

IsPrefix(a, b) == Len(a) <= Len(b) /\ SubSeq(b, 1, Len(a)) = a

\* C7: error.log is append-only across logger operations and process runs:
\* what it held before any step is a prefix of what it holds after it.
C7_ErrorLogAppendOnly == [][IsPrefix(errorLog, errorLog')]_vars

\* the file of an earlier run, after a second Logger and a new run, has
\* grown by error records
C7_Witness ==
    /\ Len(errorLog) >= 3
    /\ errorLog[1] = OldRecord
    /\ \E i \in 1..Len(calls) : calls[i].method = "error" /\ calls[i].record > 1
    /\ Len(handlers) >= 4

RECURSIVE PyEq(_, _)
\* a == b on values; mappings compare whatever their insertion order
PyEq(a, b) ==
    /\ a.kind = b.kind
    /\ CASE a.kind = "str" -> a.s = b.s
         [] a.kind = "int" -> a.n = b.n
         [] a.kind = "obj" -> a.cls = b.cls /\ a.s = b.s
         [] a.kind = "ref" -> a.n = b.n
         [] a.kind \in {"list", "tuple"} ->
               /\ Len(a.items) = Len(b.items)
               /\ \A i \in 1..Len(a.items) : PyEq(a.items[i], b.items[i])
         [] a.kind = "dict" ->
               /\ Len(a.items) = Len(b.items)
               /\ \A i \in 1..Len(a.items) : \E j \in 1..Len(b.items) :
                      /\ PyEq(a.items[i].k, b.items[j].k)
                      /\ PyEq(a.items[i].v, b.items[j].v)

\* C8: two mappings of identical content, whatever their insertion order at
\* any nesting level, are pretty-printed to the same text.
C8_SameMappingSameText ==
    pc = "formatted" =>
        \A i, j \in 1..Len(msg) :
            (msg[i].kind = "dict" /\ msg[j].kind = "dict" /\ PyEq(msg[i], msg[j]))
                => printed[i] = printed[j]

\* the text C9 expects of an error call: the formatted message, then the
\* cause's type, message and own stack trace
ExpectedErrorText(c) ==
    format_message(c.msg, "error", clock).text
    \o (IF c.cause = {} THEN <<>>
        ELSE format_exception(CHOOSE e \in c.cause : TRUE, c.cause))

\* C9: whenever error is called with a cause, inside or outside an except
\* block and whatever exception is being handled, the record is the error
\* message followed by the cause's type, message and stack trace; without a
\* cause nothing is appended.
C9_CauseTraceAppended ==
    \A i \in 1..Len(calls) :
        (calls[i].method = "error" /\ calls[i].record > 0)
            => records[calls[i].record].msg = ExpectedErrorText(calls[i])

\* the writes of the i-th call
WritesOf(i) ==
    SubSeq(stdout, calls[i].from + 1,
           IF i < Len(calls) THEN calls[i + 1].from ELSE Len(stdout))

\* the pretty-printed values of *m, one after the other
PrintedText(m) == Concat([j \in 1..Len(m) |-> pprint(m[j]).text])

\* the shape C10 gives the writes w of a glitch call on text at an intensity
GlitchShape(w, text, intensity) ==
    /\ CharsOf(w) = text
    /\ \A k \in 1..Len(w) :
           IsNoise(w[k]) =>
               /\ k < Len(w)
               /\ ~IsNoise(w[k + 1])
               /\ \E g \in 1..Len(glitched_chars) : w[k][2] = glitched_chars[g]
    /\ Len(text) <= Len(w)
    /\ Len(w) <= 2 * Len(text)
    /\ intensity.num = 0 => Len(w) = Len(text)
    /\ intensity.num = intensity.den => Len(w) = 2 * Len(text)

\* C10: a glitch call always runs to completion, and writes, for each
\* character of the pretty-printed values in order, at most one noise glyph
\* and then the character: N to 2N writes for N characters, N at intensity
\* 0 and 2N at intensity 1.
C10_GlitchCompletes ==
    \A i \in 1..Len(calls) :
        calls[i].method = "glitch" =>
            /\ calls[i].raised = ""
            /\ GlitchShape(WritesOf(i), PrintedText(calls[i].msg),
                           calls[i].intensity)

\* The shape of C10 for the glitch calls that pprint let complete.
GlitchShapeOfCompletedCalls ==
    \A i \in 1..Len(calls) :
        (calls[i].method = "glitch" /\ calls[i].raised = "") =>
            GlitchShape(WritesOf(i), PrintedText(calls[i].msg),
                        calls[i].intensity)

============================================================================
